---- MODULE Spec2Model ----
(***************************************************************************)
(* The tool-invocation gateway of the Formula One MCP server               *)
(* (src/f1-mcp-server/src/f1_mcp_server/server.py and f1_data.py):         *)
(* the sliding-window rate limiter, the argument validation and dispatch   *)
(* of f1_tool, the backend adapters' own validation and error handling,    *)
(* the value normalizer json_serial, and the envelope every invocation     *)
(* returns; and the tool handlers of the MLB and NBA Sportradar servers    *)
(* (src/mlb-sportradar-mcp-main, src/nba-sportradar-mcp-main).             *)
(***************************************************************************)
EXTENDS Integers, Sequences, FiniteSets, TLC

VARIABLES
    clock,               \* the reading of time.time(), in whole seconds
    current_year,        \* datetime.now().year
    LOG_LEVEL,           \* server.py module global, read once at import
    request_timestamps,  \* server.py module global
    inv,                 \* the invocation just handled and what f1_tool returned
    nChecks,             \* history: admission checks made so far
    firstCheckAt,        \* history: clock of the first admission check
    lastCheckAt,         \* history: clock of the latest admission check
    prevCheckAt,         \* history: clock of the admission check before it
    admissions,          \* history: the timestamps admitted so far
    environ,             \* os.environ["F1_MCP_SERVER_LOG_LEVEL"] as it is now
    log_level,           \* the --log-level option main was started with
    earlier,             \* history: an invocation handled before, and its verdict
    serial,              \* a value handed to json_serial, and what came back
    sr,                  \* a tool call of a Sportradar server, and what came back
    loop                 \* the event loop of one server and the handlers on it

vars == <<clock, current_year, LOG_LEVEL, request_timestamps, inv,
          nChecks, firstCheckAt, lastCheckAt, prevCheckAt, admissions,
          environ, log_level, earlier, serial, sr, loop>>

(***************************************************************************)
(* Program constants.                                                      *)
(***************************************************************************)
MAX_REQUESTS_PER_MINUTE == 60
WINDOW_SECONDS == 60
MIN_YEAR == 1950
MAX_GATEWAY_YEAR == 2100

(***************************************************************************)
(* Bounds of the model.                                                    *)
(***************************************************************************)
\* the year in which the server runs
ThisYear == 2026
\* the clock never passes this many seconds after start
MaxClock == 61
\* SpecRate: the clock bound and the number of admission checks of one run
MaxRateClock == 61
MaxChecks == 62
\* SpecLifetime: the clock bound, the new years the process lives to see, and
\* the load (admitted invocations of the last minute) under which it is
\* observed
MaxLifetimeClock == 61
MaxNewYears == 1
MaxLifetimeLoad == 2
\* SpecConcurrent: the invocations in flight at once
MaxTasks == 3

\* how far one step of time moves the clock
TickSteps == {61}
RateTickSteps == {59, 60, 61}

(***************************************************************************)
(* Python values that reach the gateway as arguments: JSON numbers,        *)
(* strings (kept as their characters, so that int() has to parse them)     *)
(* and null.                                                               *)
(***************************************************************************)
IntV(n) == [kind |-> "int", int |-> n]
StrV(cs) == [kind |-> "str", chars |-> cs]
NoneV == [kind |-> "none"]

DigitValue ==
    [c \in {"0", "1", "2", "3", "4", "5", "6", "7", "8", "9"} |->
        CASE c = "0" -> 0 [] c = "1" -> 1 [] c = "2" -> 2 [] c = "3" -> 3
          [] c = "4" -> 4 [] c = "5" -> 5 [] c = "6" -> 6 [] c = "7" -> 7
          [] c = "8" -> 8 [] c = "9" -> 9]

RECURSIVE ParseDigits(_, _)
ParseDigits(cs, acc) ==
    IF cs = <<>> THEN acc
    ELSE ParseDigits(Tail(cs), 10 * acc + DigitValue[Head(cs)])

RECURSIVE Join(_)
Join(cs) == IF cs = <<>> THEN "" ELSE Head(cs) \o Join(Tail(cs))

\* int(v): a number as it is, a string of digits parsed, ValueError for any
\* other string, TypeError for None
PyInt(v) ==
    CASE v.kind = "int" -> [ok |-> TRUE, int |-> v.int]
      [] v.kind = "str" ->
            IF v.chars # <<>> /\ \A i \in 1..Len(v.chars) : v.chars[i] \in DOMAIN DigitValue
            THEN [ok |-> TRUE, int |-> ParseDigits(v.chars, 0)]
            ELSE [ok |-> FALSE, exc |-> "ValueError"]
      [] v.kind = "none" -> [ok |-> FALSE, exc |-> "TypeError"]

\* str(v), also what an f-string renders
PyStr(v) ==
    CASE v.kind = "int" -> ToString(v.int)
      [] v.kind = "str" -> Join(v.chars)
      [] v.kind = "none" -> "None"

(***************************************************************************)
(* Exceptions and messages.  A message is the sequence of the pieces its   *)
(* f-string is made of.                                                    *)
(***************************************************************************)
Exc(type, msg) == [type |-> type, msg |-> msg]
ValueError(msg) == Exc("ValueError", msg)
\* str(KeyError(k)) is repr(k)
KeyError(k) == Exc("KeyError", <<"'", k, "'">>)
Mentions(msg, piece) == \E i \in 1..Len(msg) : msg[i] = piece

(***************************************************************************)
(* The rate limiter.                                                       *)
(***************************************************************************)
Retained_Inclusive(ts, current_time) == current_time - ts <= WINDOW_SECONDS
Retained(ts, current_time) == current_time - ts < WINDOW_SECONDS

OverLimit_OffByOne(timestamps) == Len(timestamps) > MAX_REQUESTS_PER_MINUTE
OverLimit(timestamps) == Len(timestamps) >= MAX_REQUESTS_PER_MINUTE

\* line 62
Pruned(timestamps, current_time) ==
    SelectSeq(timestamps, LAMBDA ts : Retained(ts, current_time))

check_rate_limit_RecordsDenied(timestamps, current_time) ==
    LET kept == Pruned(timestamps, current_time)
    IN  [admitted |-> ~OverLimit(kept), timestamps |-> Append(kept, current_time)]
check_rate_limit(timestamps, current_time) ==
    LET kept == Pruned(timestamps, current_time)
    IN  IF OverLimit(kept)
        THEN [admitted |-> FALSE, timestamps |-> kept]
        ELSE [admitted |-> TRUE, timestamps |-> Append(kept, current_time)]

(***************************************************************************)
(* The backend (the FastF1 library and the Ergast client) as the adapters  *)
(* see it: what one query answers.  "empty" is a session without laps for  *)
(* the driver asked for; "odd" is an answer whose pass-through fields are  *)
(* of a type json cannot encode.                                           *)
(***************************************************************************)
NoBackend == [kind |-> "none", desc |-> ""]
BackendOk == [kind |-> "ok", desc |-> ""]
BackendEmpty == [kind |-> "empty", desc |-> ""]
BackendOdd == [kind |-> "odd", desc |-> ""]
BackendError(d) == [kind |-> "error", desc |-> d]
FailureDescriptions == {"connection timed out", "HTTP 500 <html>upstream</html>"}
BackendFailures == {BackendError(d) : d \in FailureDescriptions}

JsonSafe == "json-safe rows"
RawObject == "raw object"

SuccessDict(data) == [status |-> "success", data |-> data]
ErrorDict(message) == [status |-> "error", message |-> message]

\* what an adapter hands back: its dict, and whether it queried the backend
Answer(result, queried) == [result |-> result, queried |-> queried]

(***************************************************************************)
(* f1_data.py: the adapters.                                               *)
(***************************************************************************)
YearInRange(year_int, now_year) ==
    ~(year_int < MIN_YEAR \/ year_int > now_year + 1)

\* the ValueError raised inside the try is caught by the function's own
\* except clause and replaced
validate_year(year, now_year) ==
    IF YearInRange(year, now_year)
    THEN [ok |-> TRUE, int |-> year]
    ELSE [ok |-> FALSE, exc |-> ValueError(<<"Invalid year format: ", ToString(year)>>)]

valid_sessions ==
    <<"Race", "Qualifying", "Sprint", "FP1", "FP2", "FP3", "SprintQualifying">>
RECURSIVE CommaJoin(_)
CommaJoin(names) ==
    IF Len(names) = 1 THEN Head(names)
    ELSE Head(names) \o ", " \o CommaJoin(Tail(names))
ValidSessionsText == CommaJoin(valid_sessions)
IsValidSession(session_name) ==
    \E i \in 1..Len(valid_sessions) : valid_sessions[i] = session_name

\* the rows of an answer after json_serial has cleaned every value
Cleaned(backend, prefix) ==
    IF backend.kind = "error"
    THEN Answer(ErrorDict(prefix \o <<backend.desc>>), TRUE)
    ELSE Answer(SuccessDict(JsonSafe), TRUE)

get_event_schedule_QueryFirst(year, backend, now_year) ==
    LET y == validate_year(year, now_year)
        prefix == <<"Failed to retrieve event schedule: ">>
    IN  IF backend.kind = "error" THEN Cleaned(backend, prefix)
        ELSE IF ~y.ok THEN Answer(ErrorDict(prefix \o y.exc.msg), FALSE)
        ELSE Cleaned(backend, prefix)
get_event_schedule(year, backend, now_year) ==
    LET y == validate_year(year, now_year)
        prefix == <<"Failed to retrieve event schedule: ">>
    IN  IF ~y.ok THEN Answer(ErrorDict(prefix \o y.exc.msg), FALSE)
        ELSE Cleaned(backend, prefix)

get_event_info(year, identifier, backend, now_year) ==
    LET y == validate_year(year, now_year)
        prefix == <<"Failed to retrieve event information: ">>
    IN  IF ~y.ok THEN Answer(ErrorDict(prefix \o y.exc.msg), FALSE)
        ELSE IF identifier = ""
        THEN Answer(ErrorDict(prefix \o <<"Invalid event identifier">>), FALSE)
        ELSE Cleaned(backend, prefix)

get_session_results(year, event_identifier, session_name, backend, now_year) ==
    LET y == validate_year(year, now_year)
        prefix == <<"Failed to retrieve session results: ">>
    IN  IF ~y.ok THEN Answer(ErrorDict(prefix \o y.exc.msg), FALSE)
        ELSE IF ~IsValidSession(session_name)
        THEN Answer(ErrorDict(prefix \o <<"Invalid session name. Must be one of: ",
                                          ValidSessionsText>>), FALSE)
        ELSE Cleaned(backend, prefix)

get_driver_info(year, event_identifier, session_name, driver_identifier, backend, now_year) ==
    LET y == validate_year(year, now_year)
        prefix == <<"Failed to retrieve driver information: ">>
    IN  IF ~y.ok THEN Answer(ErrorDict(prefix \o y.exc.msg), FALSE)
        ELSE Cleaned(backend, prefix)

analyze_driver_performance(year, event_identifier, session_name, driver_identifier, backend, now_year) ==
    LET y == validate_year(year, now_year)
    IN  IF ~y.ok THEN Answer(ErrorDict(y.exc.msg), FALSE)
        ELSE CASE backend.kind = "error" -> Answer(ErrorDict(<<backend.desc>>), TRUE)
               [] backend.kind = "empty" ->
                    Answer(ErrorDict(<<"No laps found for driver ", driver_identifier>>), TRUE)
               [] backend.kind = "odd" -> Answer(SuccessDict(RawObject), TRUE)
               [] OTHER -> Answer(SuccessDict(JsonSafe), TRUE)

\* no validate_year here: int(year) only.  There is no test of
\* len(driver_laps): for a driver without laps pick_fastest() gives None, and
\* the driver is listed with FastestLap None and TotalLaps 0.
compare_drivers(year, event_identifier, session_name, drivers, backend) ==
    CASE backend.kind = "error" -> Answer(ErrorDict(<<backend.desc>>), TRUE)
      [] OTHER -> Answer(SuccessDict(JsonSafe), TRUE)

\* no validate_year here: int(year) only
get_telemetry(year, event_identifier, session_name, driver_identifier, lap_number, backend) ==
    CASE backend.kind = "error" -> Answer(ErrorDict(<<backend.desc>>), TRUE)
      [] backend.kind = "empty" ->
            Answer(ErrorDict(<<"No laps found for driver ", driver_identifier>>), TRUE)
      [] backend.kind = "odd" -> Answer(SuccessDict(RawObject), TRUE)
      [] OTHER -> Answer(SuccessDict(JsonSafe), TRUE)

\* no validate_year here: int(year) only
get_championship_standings(year, round_num, backend) ==
    Cleaned(backend, <<"Failed to analyze driver performance: ">>)

\* the answers the backend can give to each adapter
BackendAnswers(name) ==
    {BackendOk} \cup BackendFailures
    \cup (IF name \in {"analyze_driver_performance", "compare_drivers", "get_telemetry"}
          THEN {BackendEmpty} ELSE {})
    \cup (IF name \in {"analyze_driver_performance", "get_telemetry"}
          THEN {BackendOdd} ELSE {})

(***************************************************************************)
(* server.py: f1_tool.                                                     *)
(***************************************************************************)
NoExc == Exc("", <<>>)
NoResult == [status |-> ""]

\* the outcome of the body of the try statement: the adapter's dict, or the
\* exception raised, with the stages the invocation went through
Raised(exc, stages) ==
    [ok |-> FALSE, exc |-> exc, result |-> NoResult, stages |-> stages,
     adapter_calls |-> <<>>, queried |-> FALSE]
Called_RetryOnError(name, answer, stages) ==
    [ok |-> TRUE, exc |-> NoExc, result |-> answer.result,
     stages |-> stages \cup {"adapter"},
     adapter_calls |-> IF answer.result.status = "error" THEN <<name, name>>
                       ELSE <<name>>,
     queried |-> answer.queried]
Called(name, answer, stages) ==
    [ok |-> TRUE, exc |-> NoExc, result |-> answer.result,
     stages |-> stages \cup {"adapter"},
     adapter_calls |-> <<name>>, queried |-> answer.queried]

GatewayYearOk(year) == MIN_YEAR <= year /\ year <= MAX_GATEWAY_YEAR

\* lines 150-158: sanitized_args, or the ValueError that replaces whatever
\* was raised inside the inner try
CommonValidation(arguments) ==
    IF "year" \notin DOMAIN arguments
    THEN [ok |-> TRUE, sanitized_args |-> <<>>]
    ELSE LET y == PyInt(arguments["year"])
         IN  IF y.ok /\ GatewayYearOk(y.int)
             THEN [ok |-> TRUE, sanitized_args |-> ("year" :> y.int)]
             ELSE [ok |-> FALSE,
                   exc |-> ValueError(<<"Invalid year format: ",
                                        PyStr(arguments["year"])>>)]

\* the first of the subscripts, in evaluation order, that raises KeyError:
\* "year" is read from sanitized_args, every other key from arguments
RECURSIVE FirstMissing(_, _, _)
FirstMissing(keys, sanitized_args, arguments) ==
    IF keys = <<>> THEN ""
    ELSE IF Head(keys) \notin
              (IF Head(keys) = "year" THEN DOMAIN sanitized_args ELSE DOMAIN arguments)
    THEN Head(keys)
    ELSE FirstMissing(Tail(keys), sanitized_args, arguments)

\* lines 225-232 and 242-249: an optional positive integer; 0 stands for None.
\* The name is rebound once int() has succeeded, so the message shows the
\* converted value then.
OptionalPositive(arguments, key, what) ==
    IF key \notin DOMAIN arguments \/ arguments[key] = NoneV
    THEN [ok |-> TRUE, value |-> 0]
    ELSE LET n == PyInt(arguments[key])
         IN  IF n.ok /\ ~(n.int <= 0)
             THEN [ok |-> TRUE, value |-> n.int]
             ELSE [ok |-> FALSE,
                   exc |-> ValueError(<<what, IF n.ok THEN ToString(n.int)
                                               ELSE PyStr(arguments[key])>>)]

SessionNameValidated(name) == name = "get_session_results"

\* the subscripts each branch evaluates before it calls its adapter
BranchKeys(name) ==
    CASE name = "get_event_schedule" -> <<"year">>
      [] name = "get_event_info" -> <<"identifier", "year">>
      [] name = "get_session_results" -> <<"event_identifier", "session_name", "year">>
      [] name = "get_driver_info" ->
            <<"year", "event_identifier", "session_name", "driver_identifier">>
      [] name = "analyze_driver_performance" ->
            <<"year", "event_identifier", "session_name", "driver_identifier">>
      [] name = "compare_drivers" ->
            <<"year", "event_identifier", "session_name", "drivers">>
      [] name = "get_telemetry" ->
            <<"year", "event_identifier", "session_name", "driver_identifier">>
      [] name = "get_championship_standings" -> <<"year">>
      [] OTHER -> <<>>

\* lines 283-533: the catalog, each tool with the properties and the required
\* list of its inputSchema
Tool(name, properties, required) ==
    [name |-> name, properties |-> properties, required |-> required]
list_tools ==
    <<Tool("get_event_schedule", {"year"}, <<"year">>),
      Tool("get_event_info", {"year", "identifier"}, <<"year", "identifier">>),
      Tool("get_session_results", {"year", "event_identifier", "session_name"},
           <<"year", "event_identifier", "session_name">>),
      Tool("get_driver_info",
           {"year", "event_identifier", "session_name", "driver_identifier"},
           <<"year", "event_identifier", "session_name", "driver_identifier">>),
      Tool("analyze_driver_performance",
           {"year", "event_identifier", "session_name", "driver_identifier"},
           <<"year", "event_identifier", "session_name", "driver_identifier">>),
      Tool("compare_drivers",
           {"year", "event_identifier", "session_name", "drivers"},
           <<"year", "event_identifier", "session_name", "drivers">>),
      Tool("get_telemetry",
           {"year", "event_identifier", "session_name", "driver_identifier",
            "lap_number"},
           <<"year", "event_identifier", "session_name", "driver_identifier">>),
      Tool("get_championship_standings", {"year", "round_num"}, <<"year">>)>>
ListedNames == {list_tools[i].name : i \in 1..Len(list_tools)}
Required(name) ==
    UNION {{list_tools[i].required[j] : j \in 1..Len(list_tools[i].required)} :
           i \in {k \in 1..Len(list_tools) : list_tools[k].name = name}}

\* the names the if-chain of lines 161-251 compares with, in its order
DispatchBranches_NoStandings ==
    <<"get_event_schedule", "get_event_info", "get_session_results",
      "get_driver_info", "analyze_driver_performance", "compare_drivers",
      "get_telemetry">>
DispatchBranches ==
    <<"get_event_schedule", "get_event_info", "get_session_results",
      "get_driver_info", "analyze_driver_performance", "compare_drivers",
      "get_telemetry", "get_championship_standings">>
\* the branches whose condition a name makes true
BranchesOf(name) == {b \in 1..Len(DispatchBranches) : DispatchBranches[b] = name}
DispatchNames == {DispatchBranches[b] : b \in 1..Len(DispatchBranches)}

\* the keys a branch tests with "not in arguments" and reports by name
CheckedKeys(name) ==
    CASE name = "get_event_info" -> <<"identifier">>
      [] name = "get_session_results" -> <<"event_identifier", "session_name">>
      [] OTHER -> <<>>

Arg(arguments, key) == PyStr(arguments[key])

\* the call a branch makes once every subscript has been evaluated
CallAdapter(name, sanitized_args, arguments, optional, backend, now_year) ==
    LET year == sanitized_args["year"]
    IN  CASE name = "get_event_schedule" -> get_event_schedule(year, backend, now_year)
          [] name = "get_event_info" ->
                get_event_info(year, Arg(arguments, "identifier"), backend, now_year)
          [] name = "get_session_results" ->
                get_session_results(year, Arg(arguments, "event_identifier"),
                                    Arg(arguments, "session_name"), backend, now_year)
          [] name = "get_driver_info" ->
                get_driver_info(year, Arg(arguments, "event_identifier"),
                                Arg(arguments, "session_name"),
                                Arg(arguments, "driver_identifier"), backend, now_year)
          [] name = "analyze_driver_performance" ->
                analyze_driver_performance(year, Arg(arguments, "event_identifier"),
                                           Arg(arguments, "session_name"),
                                           Arg(arguments, "driver_identifier"),
                                           backend, now_year)
          [] name = "compare_drivers" ->
                compare_drivers(year, Arg(arguments, "event_identifier"),
                                Arg(arguments, "session_name"),
                                Arg(arguments, "drivers"), backend)
          [] name = "get_telemetry" ->
                get_telemetry(year, Arg(arguments, "event_identifier"),
                              Arg(arguments, "session_name"),
                              Arg(arguments, "driver_identifier"), optional, backend)
          [] name = "get_championship_standings" ->
                get_championship_standings(year, optional, backend)

\* lines 160-254: the branch of the tool name
Dispatch(name, sanitized_args, arguments, backend, now_year) ==
    LET stages == {"validate", "dispatch"}
        unchecked == FirstMissing(CheckedKeys(name), <<>>, arguments)
        optional ==
            CASE name = "get_telemetry" ->
                    OptionalPositive(arguments, "lap_number", "Invalid lap number: ")
              [] name = "get_championship_standings" ->
                    OptionalPositive(arguments, "round_num", "Invalid round number: ")
              [] OTHER -> [ok |-> TRUE, value |-> 0]
        missing == FirstMissing(BranchKeys(name), sanitized_args, arguments)
    IN  IF name \notin DispatchNames
        THEN Raised(ValueError(<<"Unknown tool: ", name>>), stages)
        ELSE IF CheckedKeys(name) # <<>> /\ unchecked # ""
        THEN Raised(ValueError(<<"Missing required argument: ", unchecked>>), stages)
        ELSE IF SessionNameValidated(name)
                /\ ~IsValidSession(Arg(arguments, "session_name"))
        THEN Raised(ValueError(<<"Invalid session_name: must be one of ",
                                 ValidSessionsText>>), stages)
        ELSE IF ~optional.ok THEN Raised(optional.exc, stages)
        ELSE IF missing # "" THEN Raised(KeyError(missing), stages)
        ELSE Called(name,
                    CallAdapter(name, sanitized_args, arguments, optional.value,
                                backend, now_year),
                    stages)

\* lines 145-257, the body of the try statement up to the adapter's return
TryBody(name, arguments, backend, now_year) ==
    LET common == CommonValidation(arguments)
    IN  IF ~common.ok THEN Raised(common.exc, {"validate"})
        ELSE Dispatch(name, common.sanitized_args, arguments, backend, now_year)

GenericMessage == <<"An error occurred while processing your request">>
RateLimitMessage == <<"Rate limit exceeded. Please try again later.">>

\* line 131
RateLimited_Ignored(admitted) == FALSE
RateLimited(admitted) == ~admitted
\* line 258: except Exception
Caught_ValueErrorOnly(exc) == exc.type = "ValueError"
Caught(exc) == TRUE
\* line 262
Verbose(level) == level = "DEBUG"
\* lines 262-265
error_msg_Reread(exc, level) ==
    IF Verbose(environ) THEN <<"Error: ">> \o exc.msg ELSE GenericMessage
error_msg(exc, level) ==
    IF Verbose(level) THEN <<"Error: ">> \o exc.msg ELSE GenericMessage
\* lines 267-272
ErrorEnvelope_NoMessage(message) == [status |-> "error"]
ErrorEnvelope(message) == [status |-> "error", message |-> message]
\* line 257: json.dumps(result)
Serializable(result) == result.status = "error" \/ result.data # RawObject
JsonTypeError ==
    Exc("TypeError", <<"Object of type ", "Timedelta", " is not JSON serializable">>)

\* what the handler leaves behind: the list it returns (or the exception that
\* leaves it), the stages it went through and the calls it made
Handled(response, raised, escaped, stages, adapter_calls, queried) ==
    [response |-> response, raised |-> raised, escaped |-> escaped,
     stages |-> stages, adapter_calls |-> adapter_calls, queried |-> queried]

\* lines 133-143
RateLimitReply ==
    Handled(<<ErrorEnvelope(RateLimitMessage)>>, NoExc, NoExc, {}, <<>>, FALSE)

\* lines 145-272
Execute(name, arguments, backend, level, now_year) ==
    LET body == TryBody(name, arguments, backend, now_year)
        failure == IF ~body.ok THEN body.exc
                   ELSE IF ~Serializable(body.result) THEN JsonTypeError
                   ELSE NoExc
        stages == body.stages \cup (IF body.ok THEN {"serialize"} ELSE {})
    IN  IF failure = NoExc
        THEN Handled(<<body.result>>, NoExc, NoExc, stages, body.adapter_calls,
                     body.queried)
        ELSE IF Caught(failure)
        THEN Handled(<<ErrorEnvelope(error_msg(failure, level))>>, failure, NoExc,
                     stages, body.adapter_calls, body.queried)
        ELSE Handled(<<>>, failure, failure, stages, body.adapter_calls, body.queried)

(***************************************************************************)
(* The invocations the model draws.                                        *)
(***************************************************************************)
LogLevels == {"DEBUG", "INFO"}
\* line 36 and line 96: the default of the variable and of the option
DefaultLevel == "INFO"

BaseYear == IntV(2023)
Years ==
    {IntV(MIN_YEAR - 1), IntV(MIN_YEAR), BaseYear, IntV(ThisYear + 1),
     IntV(ThisYear + 2), IntV(MAX_GATEWAY_YEAR), IntV(MAX_GATEWAY_YEAR + 1),
     StrV(<<"2", "0", "2", "3">>), StrV(<<"a", "b", "c">>), NoneV}
Events == {StrV(<<"7">>)}
Sessions == {StrV(<<"R", "a", "c", "e">>),
             StrV(<<"P", "r", "a", "c", "t", "i", "c", "e">>)}
Drivers == {StrV(<<"4", "4">>)}
DriverLists == {StrV(<<"H", "A", "M", ",", "V", "E", "R">>)}
Identifiers == {StrV(<<"M", "o", "n", "a", "c", "o">>)}
Optionals == {IntV(5), IntV(0), StrV(<<"x">>)}

\* a key absent, or present with one of the values
Opt(key, values) == {<<>>} \cup {key :> v : v \in values}

\* the required keys of a tool other than year, each absent or present
OtherArgs(name) ==
    CASE name = "get_event_info" -> Opt("identifier", Identifiers)
      [] name = "get_session_results" ->
            {e @@ s : e \in Opt("event_identifier", Events),
                      s \in Opt("session_name", Sessions)}
      [] name \in {"get_driver_info", "analyze_driver_performance", "get_telemetry"} ->
            {e @@ s @@ d : e \in Opt("event_identifier", Events),
                           s \in Opt("session_name", Sessions),
                           d \in Opt("driver_identifier", Drivers)}
      [] name = "compare_drivers" ->
            {e @@ s @@ d : e \in Opt("event_identifier", Events),
                           s \in Opt("session_name", Sessions),
                           d \in Opt("drivers", DriverLists)}
      [] OTHER -> {<<>>}

\* every required key other than year present and valid
BaseArgs(name) ==
    CASE name = "get_event_info" -> "identifier" :> StrV(<<"M", "o", "n", "a", "c", "o">>)
      [] name = "get_session_results" ->
            "event_identifier" :> StrV(<<"7">>) @@ "session_name" :> StrV(<<"R", "a", "c", "e">>)
      [] name \in {"get_driver_info", "analyze_driver_performance", "get_telemetry"} ->
            "event_identifier" :> StrV(<<"7">>) @@ "session_name" :> StrV(<<"R", "a", "c", "e">>)
              @@ "driver_identifier" :> StrV(<<"4", "4">>)
      [] name = "compare_drivers" ->
            "event_identifier" :> StrV(<<"7">>) @@ "session_name" :> StrV(<<"R", "a", "c", "e">>)
              @@ "drivers" :> StrV(<<"H", "A", "M", ",", "V", "E", "R">>)
      [] OTHER -> <<>>

FullArgs(name) == ("year" :> BaseYear) @@ BaseArgs(name)

OptionalKey(name) ==
    CASE name = "get_telemetry" -> {"lap_number"}
      [] name = "get_championship_standings" -> {"round_num"}
      [] OTHER -> {}

ToolNames == DispatchNames \cup {"get_nonexistent"}

\* with the year absent or valid every combination of the required keys;
\* with the other keys valid every year and every value of the optional key
ArgumentsOf(name) ==
    {y @@ o : y \in Opt("year", {BaseYear}), o \in OtherArgs(name)}
    \cup {("year" :> y) @@ BaseArgs(name) : y \in Years}
    \cup {(k :> v) @@ FullArgs(name) : k \in OptionalKey(name), v \in Optionals \cup {NoneV}}

InvocationsOf(name) == {[name |-> name, arguments |-> a] : a \in ArgumentsOf(name)}
Invocations == UNION {InvocationsOf(n) : n \in ToolNames}
\* SpecRate: one invocation of each kind of outcome
RateInvocations ==
    {[name |-> "get_event_schedule", arguments |-> ("year" :> BaseYear)],
     [name |-> "get_event_schedule", arguments |-> ("year" :> IntV(MIN_YEAR - 1))],
     [name |-> "get_nonexistent", arguments |-> <<>>]}

(***************************************************************************)
(* The state machine.                                                      *)
(***************************************************************************)
NoInvocation == [handled |-> FALSE]
NothingEarlier == [handled |-> FALSE]
NothingSerialized == [given |-> FALSE]
NoToolCall == [called |-> FALSE]
NoLoop == [server |-> ""]

\* the F1 server has started: line 36 has read the environment, main has
\* its option, nothing has been invoked
Started(env_levels, option_levels) ==
    /\ clock = 0
    /\ current_year = ThisYear
    /\ environ \in env_levels
    /\ LOG_LEVEL = environ
    /\ log_level \in option_levels
    /\ request_timestamps = <<>>
    /\ inv = NoInvocation
    /\ earlier = NothingEarlier
    /\ nChecks = 0
    /\ firstCheckAt = 0
    /\ lastCheckAt = 0
    /\ prevCheckAt = 0
    /\ admissions = [at |-> <<>>, only_failures |-> TRUE]
    /\ loop = NoLoop

Init ==
    /\ Started(LogLevels, {DefaultLevel})
    /\ serial = NothingSerialized
    /\ sr = NoToolCall

\* one call of f1_tool, from the admission check to the return; the backend
\* answers if and only if an adapter queries it
f1_tool_RefundOnFailure(name, arguments, backend) ==
    LET rl == check_rate_limit(request_timestamps, clock)
        out == IF RateLimited(rl.admitted) THEN RateLimitReply
               ELSE Execute(name, arguments, backend, LOG_LEVEL, current_year)
        kept == IF out.response[1].status = "error"
                THEN Pruned(request_timestamps, clock) ELSE rl.timestamps
    IN  /\ out.queried <=> backend # NoBackend
        /\ request_timestamps' = kept
        /\ inv' = [handled |-> TRUE, name |-> name, arguments |-> arguments,
                   backend |-> backend, at |-> clock, admitted |-> rl.admitted,
                   recorded |-> Len(kept) - Len(Pruned(request_timestamps, clock)),
                   response |-> out.response, raised |-> out.raised,
                   escaped |-> out.escaped,
                   stages |-> out.stages, adapter_calls |-> out.adapter_calls,
                   queried |-> out.queried]
        /\ UNCHANGED <<clock, current_year, LOG_LEVEL, environ, log_level, serial, sr,
                       loop>>
f1_tool(name, arguments, backend) ==
    LET rl == check_rate_limit(request_timestamps, clock)
        out == IF RateLimited(rl.admitted) THEN RateLimitReply
               ELSE Execute(name, arguments, backend, LOG_LEVEL, current_year)
    IN  /\ out.queried <=> backend # NoBackend
        /\ request_timestamps' = rl.timestamps
        /\ inv' = [handled |-> TRUE, name |-> name, arguments |-> arguments,
                   backend |-> backend, at |-> clock, admitted |-> rl.admitted,
                   recorded |-> Len(rl.timestamps)
                                  - Len(Pruned(request_timestamps, clock)),
                   response |-> out.response, raised |-> out.raised,
                   escaped |-> out.escaped,
                   stages |-> out.stages, adapter_calls |-> out.adapter_calls,
                   queried |-> out.queried]
        /\ UNCHANGED <<clock, current_year, LOG_LEVEL, environ, log_level, serial, sr,
                       loop>>

History == <<nChecks, firstCheckAt, lastCheckAt, prevCheckAt, admissions>>
\* what no step of an invocation touches
Elsewhere == <<environ, log_level, serial, sr, loop>>

\* f1_tool has no await: the event loop runs one call of it at a time
Invoke ==
    /\ inv = NoInvocation
    /\ \E i \in Invocations : \E b \in BackendAnswers(i.name) \cup {NoBackend} :
            /\ f1_tool(i.name, i.arguments, b)
            /\ UNCHANGED <<History, earlier>>

\* the caller has the response; the handler's frame is gone (the observer
\* notes a failure that came after the invocation it remembers)
Deliver ==
    /\ inv # NoInvocation
    /\ inv' = NoInvocation
    /\ earlier' = IF earlier.handled /\ inv.response[1].status = "error"
                  THEN [earlier EXCEPT !.failed_since = TRUE]
                  ELSE earlier
    /\ UNCHANGED <<clock, current_year, LOG_LEVEL, request_timestamps, History,
                   Elsewhere>>

Advance(steps, limit) ==
    \E d \in steps :
        /\ clock + d <= limit
        /\ clock' = clock + d
        /\ UNCHANGED <<current_year, LOG_LEVEL, request_timestamps, inv, History,
                       earlier, Elsewhere>>

Tick == Advance(TickSteps, MaxClock)

Next == Invoke \/ Deliver \/ Tick

Spec == Init /\ [][Next]_vars

\* the same gateway observed by the history variables, under load
ObservedInvoke ==
    /\ inv = NoInvocation
    /\ nChecks < MaxChecks
    /\ \E i \in RateInvocations : \E b \in {BackendOk, NoBackend} :
            /\ f1_tool(i.name, i.arguments, b)
            /\ nChecks' = nChecks + 1
            /\ firstCheckAt' = (IF nChecks = 0 THEN clock ELSE firstCheckAt)
            /\ lastCheckAt' = clock
            /\ prevCheckAt' = lastCheckAt
            /\ admissions' =
                  IF inv'.admitted
                  THEN [at |-> Append(admissions.at, clock),
                        only_failures |-> /\ admissions.only_failures
                                          /\ inv'.response[1].status = "error"]
                  ELSE admissions
            /\ UNCHANGED earlier

RateTick == Advance(RateTickSteps, MaxRateClock)

NextRate == ObservedInvoke \/ Deliver \/ RateTick

SpecRate == Init /\ [][NextRate]_vars

(***************************************************************************)
(* The F1 server over its lifetime: the configuration it started with, the *)
(* environment changing under it, the calendar year turning, and an        *)
(* invocation remembered to compare a later one with.                      *)
(***************************************************************************)
InitLifetime ==
    /\ Started(LogLevels, LogLevels)
    /\ serial = NothingSerialized
    /\ sr = NoToolCall

LifetimeInvocations ==
    {[name |-> "get_event_schedule", arguments |-> ("year" :> y)] :
        y \in {IntV(ThisYear + 1), IntV(ThisYear + 2), IntV(MAX_GATEWAY_YEAR + 1)}}
    \cup {[name |-> "get_event_schedule", arguments |-> <<>>],
          [name |-> "get_nonexistent", arguments |-> <<>>],
          [name |-> "compare_drivers",
           arguments |-> ("year" :> IntV(ThisYear + 2)) @@ BaseArgs("compare_drivers")]}
LifetimeBackends == {BackendOk, BackendError("connection timed out"), NoBackend}

LifetimeInvoke ==
    /\ inv = NoInvocation
    /\ Len(Pruned(request_timestamps, clock)) < MaxLifetimeLoad
    /\ \E i \in LifetimeInvocations : \E b \in LifetimeBackends :
            /\ f1_tool(i.name, i.arguments, b)
            /\ UNCHANGED <<History, earlier>>

\* what validation made of the invocation: the exception raised before any
\* adapter was called, or the message of the adapter that refused to query
\* the backend, or nothing when the arguments passed
Verdict ==
    IF inv.raised # NoExc /\ inv.adapter_calls = <<>> THEN inv.raised.msg
    ELSE IF ~inv.queried THEN inv.response[1].message
    ELSE <<>>

\* the caller has the response; the observer may keep the invocation
Remember ==
    /\ inv # NoInvocation
    /\ inv' = NoInvocation
    /\ earlier' = [handled |-> TRUE, name |-> inv.name, arguments |-> inv.arguments,
                   backend |-> inv.backend, at |-> inv.at, year |-> current_year,
                   verdict |-> Verdict, response |-> inv.response,
                   failed_since |-> FALSE]
    /\ UNCHANGED <<clock, current_year, LOG_LEVEL, request_timestamps, History, Elsewhere>>

\* datetime.now().year after New Year's Eve
NewYear ==
    /\ inv = NoInvocation
    /\ current_year < ThisYear + MaxNewYears
    /\ current_year' = current_year + 1
    /\ UNCHANGED <<clock, LOG_LEVEL, request_timestamps, inv, History, earlier, Elsewhere>>

\* the environment variable is set anew while the server runs; line 36 is
\* not run again
SetEnviron ==
    /\ \E level \in LogLevels \ {environ} : environ' = level
    /\ UNCHANGED <<clock, current_year, LOG_LEVEL, request_timestamps, inv, History,
                   earlier, log_level, serial, sr, loop>>

LifetimeTick == Advance(TickSteps, MaxLifetimeClock)

NextLifetime ==
    LifetimeInvoke \/ Deliver \/ Remember \/ NewYear \/ SetEnviron \/ LifetimeTick

SpecLifetime == InitLifetime /\ [][NextLifetime]_vars

(***************************************************************************)
(* f1_data.py: json_serial, and the loops of the adapters that apply it.   *)
(* The values it is given: pandas timestamps and NaT, numpy integers and   *)
(* floats, native floats, None, pd.NA, strings, native integers, lists,    *)
(* dicts (their items in insertion order) and other objects.  Lists hold   *)
(* scalars and dicts.                                                      *)
(***************************************************************************)
Timestamp(day, time) == [kind |-> "timestamp", day |-> day, time |-> time]
NaT == [kind |-> "nat"]
NpInt(n) == [kind |-> "np.integer", int |-> n]
NpFloat(x) == [kind |-> "np.floating", float |-> x]
FloatV(x) == [kind |-> "float", float |-> x]
NA == [kind |-> "NA"]
List(elems) == [kind |-> "list", elems |-> elems]
Dict(items) == [kind |-> "dict", items |-> items]
Object(text) == [kind |-> "object", str |-> text]

Returned(value) == [ok |-> TRUE, value |-> value]
Failed(exc) == [ok |-> FALSE, exc |-> exc]

\* repr(obj) of a value inside a container, str(obj) of the value itself
RECURSIVE Repr(_)
RECURSIVE ReprElems(_)
RECURSIVE ReprItems(_)
ReprElems(elems) ==
    IF elems = <<>> THEN ""
    ELSE Repr(Head(elems)) \o (IF Len(elems) = 1 THEN "" ELSE ", ")
         \o ReprElems(Tail(elems))
ReprItems(items) ==
    IF items = <<>> THEN ""
    ELSE "'" \o Head(items)[1] \o "': " \o Repr(Head(items)[2])
         \o (IF Len(items) = 1 THEN "" ELSE ", ") \o ReprItems(Tail(items))
Repr(obj) ==
    CASE obj.kind = "timestamp" -> "Timestamp('" \o obj.day \o " " \o obj.time \o "')"
      [] obj.kind = "nat" -> "NaT"
      [] obj.kind \in {"np.integer", "int"} -> ToString(obj.int)
      [] obj.kind \in {"np.floating", "float"} -> obj.float
      [] obj.kind = "NA" -> "<NA>"
      [] obj.kind = "none" -> "None"
      [] obj.kind = "str" -> "'" \o Join(obj.chars) \o "'"
      [] obj.kind = "list" -> "[" \o ReprElems(obj.elems) \o "]"
      [] obj.kind = "dict" -> "{" \o ReprItems(obj.items) \o "}"
      [] obj.kind = "object" -> obj.str
Str(obj) ==
    CASE obj.kind = "timestamp" -> obj.day \o " " \o obj.time
      [] obj.kind = "str" -> Join(obj.chars)
      [] OTHER -> Repr(obj)

\* line 56
isoformat(obj) ==
    IF obj.kind = "nat" THEN "NaT" ELSE obj.day \o "T" \o obj.time

\* pd.isna of a scalar
IsMissing(obj) ==
    \/ obj.kind \in {"none", "NA", "nat"}
    \/ obj.kind \in {"float", "np.floating"} /\ obj.float = "nan"

AmbiguousTruth ==
    ValueError(<<"The truth value of an array with more than one element is ambiguous. Use a.any() or a.all()">>)
EmptyTruth ==
    ValueError(<<"The truth value of an empty array is ambiguous. Use array.size > 0 to check that an array is not empty.">>)

\* line 61: what "pd.isna(obj) or obj is None" comes to as a condition.  Of
\* a list pd.isna gives an array of one flag per element, and the truth
\* value of an array is the flag of its single element, an error when it has
\* more than one element, and False or an error (the numpy version decides)
\* when it is empty.
IsnaCondition(obj) ==
    CASE obj.kind = "list" ->
            IF Len(obj.elems) = 0 THEN {Returned(FALSE), Failed(EmptyTruth)}
            ELSE IF Len(obj.elems) = 1 THEN {Returned(IsMissing(obj.elems[1]))}
            ELSE {Failed(AmbiguousTruth)}
      [] OTHER -> {Returned(IsMissing(obj))}

\* lines 55-63: every outcome json_serial(obj) can have
json_serial(obj) ==
    CASE obj.kind \in {"timestamp", "nat"} -> {Returned(StrV(<<isoformat(obj)>>))}
      [] obj.kind = "np.integer" -> {Returned(IntV(obj.int))}
      [] obj.kind = "np.floating" -> {Returned(FloatV(obj.float))}
      [] OTHER ->
            {IF ~c.ok THEN c
             ELSE IF c.value THEN Returned(NoneV)
             ELSE Returned(StrV(<<Str(obj)>>)) : c \in IsnaCondition(obj)}

\* lines 112, 502: {k: json_serial(v) for k, v in item.items()}
RECURSIVE CleanItems(_)
CleanItems(items) ==
    IF items = <<>> THEN {Returned(<<>>)}
    ELSE UNION {IF ~h.ok THEN {h}
                ELSE {IF t.ok THEN Returned(<<<<Head(items)[1], h.value>>>> \o t.value)
                      ELSE t : t \in CleanItems(Tail(items))} :
                h \in json_serial(Head(items)[2])}
clean_item(item) ==
    {IF r.ok THEN Returned(Dict(r.value)) ELSE r : r \in CleanItems(item.items)}

\* lines 499-503: clean_data, the list of the cleaned items
RECURSIVE clean_data(_)
clean_data(records) ==
    IF records = <<>> THEN {Returned(<<>>)}
    ELSE UNION {IF ~h.ok THEN {h}
                ELSE {IF t.ok THEN Returned(<<h.value>> \o t.value) ELSE t :
                      t \in clean_data(Tail(records))} :
                h \in clean_item(Head(records))}

\* the values the model hands to json_serial
NativeNaN == FloatV("nan")
Leaves ==
    {NoneV, NativeNaN, FloatV("1.5"), StrV(<<"VER">>), NaT,
     Timestamp("2023-05-28", "13:00:00")}
Scalars ==
    Leaves \cup {NpInt(44), NpFloat("1.5"), NpFloat("nan"), NpFloat("inf"),
                 NA, IntV(44), Object("0 days 00:01:23.456000")}
ShortLists == {List(<<>>), List(<<NativeNaN>>), List(<<FloatV("1.5"), NativeNaN>>)}
FlatDicts ==
    {Dict(<< <<"Speed", v>> >>) : v \in Leaves}
    \cup {Dict(<< <<"Speed", v>>, <<"Date", w>> >>) :
            v \in {FloatV("1.5"), NativeNaN}, w \in {NaT, Timestamp("2023-05-28", "13:00:00")}}
NestedDicts ==
    {Dict(<< <<"Speed", v>> >>) : v \in ShortLists \cup {Dict(<< <<"X", NativeNaN>> >>)}}
RecordDicts == {Dict(<< <<"Speed", v>> >>) : v \in {FloatV("1.5"), NativeNaN}} \cup NestedDicts
Lists ==
    LET elems == Leaves \cup RecordDicts
    IN  {List(<<>>)} \cup {List(<<a>>) : a \in elems}
        \cup {List(<<a, b>>) : a \in elems, b \in elems}
Values == Scalars \cup FlatDicts \cup NestedDicts \cup Lists

NoOutcome == Returned(NoneV)
Given(obj) == [given |-> TRUE, obj |-> obj, by |-> "", out |-> NoOutcome]

InitSerial ==
    /\ Started({DefaultLevel}, {DefaultLevel})
    /\ serial \in {Given(obj) : obj \in Values}
    /\ sr = NoToolCall

Gateway ==
    <<clock, current_year, LOG_LEVEL, request_timestamps, inv, History, earlier,
      environ, log_level, loop>>

\* one call of json_serial
Serialize ==
    /\ serial.given /\ serial.by = ""
    /\ \E out \in json_serial(serial.obj) :
          serial' = [serial EXCEPT !.by = "json_serial", !.out = out]
    /\ UNCHANGED <<Gateway, sr>>

\* f1_data.py 498-503: the loop over telemetry.to_dict(orient="records")
IsRecords(obj) ==
    obj.kind = "list" /\ \A i \in 1..Len(obj.elems) : obj.elems[i].kind = "dict"
Clean ==
    /\ serial.given /\ serial.by = ""
    /\ IsRecords(serial.obj)
    /\ \E out \in clean_data(serial.obj.elems) :
          serial' = [serial EXCEPT !.by = "clean_data",
                                   !.out = IF out.ok THEN Returned(List(out.value))
                                           ELSE out]
    /\ UNCHANGED <<Gateway, sr>>

NextSerial == Serialize \/ Clean

SpecSerial == InitSerial /\ [][NextSerial]_vars

(***************************************************************************)
(* The MLB and NBA Sportradar servers: mlb_sportradar_mcp/server.py,       *)
(* nba_sportradar_mcp/server.py and their helpers.  A string is its        *)
(* pieces, "-" a piece of its own; a JSON object is a function of its      *)
(* keys.                                                                   *)
(***************************************************************************)
\* what the Sportradar API does with one request
HttpOk(data) == [kind |-> "ok", data |-> data, code |-> 200]
HttpStatus(code) == [kind |-> "status", data |-> <<>>, code |-> code]
NetworkFailure == [kind |-> "network", data |-> <<>>, code |-> 0]
MalformedBody == [kind |-> "malformed", data |-> <<>>, code |-> 200]

\* client.get(url), response.raise_for_status(), response.json()
Fetch(upstream, url) ==
    CASE upstream.kind = "network" ->
            Failed(Exc("ConnectError", <<"All connection attempts failed">>))
      [] upstream.kind = "status" ->
            Failed(Exc("HTTPStatusError",
                       <<"Error response ", ToString(upstream.code), " for url ">> \o url))
      [] upstream.kind = "malformed" ->
            Failed(Exc("JSONDecodeError", <<"Expecting value: line 1 column 1 (char 0)">>))
      [] OTHER -> Returned(upstream.data)

\* mlb_data.py and nba_data.py 15-19
Today(now_year) == StrV(<<ToString(now_year), "-", "11", "-", "03">>)
format_date(date_str, now_year) ==
    IF date_str = NoneV THEN Today(now_year) ELSE date_str

\* str.split("-")
RECURSIVE Split(_, _, _)
Split(pieces, part, parts) ==
    IF pieces = <<>> THEN Append(parts, part)
    ELSE IF Head(pieces) = "-" THEN Split(Tail(pieces), <<>>, Append(parts, part))
    ELSE Split(Tail(pieces), Append(part, Head(pieces)), parts)

\* mlb_data.py and nba_data.py 22-32
parse_date(date_str) ==
    LET date_parts == Split(date_str.chars, <<>>, <<>>)
    IN  IF Len(date_parts) # 3
        THEN Failed(ValueError(<<"Invalid date format: ", Join(date_str.chars),
                                 ". Expected YYYY-MM-DD">>))
        ELSE Returned([year |-> Join(date_parts[1]), month |-> Join(date_parts[2]),
                       day |-> Join(date_parts[3])])

\* str.upper() and str.lower() of the strings the model uses
upper(text) ==
    CASE text = "al" -> "AL" [] text = "East" -> "EAST" [] text = "North" -> "NORTH"
      [] text = "pst" -> "PST" [] text = "Eastern Conference" -> "EASTERN CONFERENCE"
      [] text = "Western Conference" -> "WESTERN CONFERENCE"
      [] OTHER -> text
lower(text) ==
    CASE text = "POINTS" -> "points" [] text = "Hitting" -> "hitting"
      [] OTHER -> text

\* what a handler leaves behind: the requests it made, the exception raised
\* inside its try statement, and its return value or the exception that
\* leaves it
Outcome(requests, raised, out) == [requests |-> requests, raised |-> raised, out |-> out]
\* except Exception as e: logger.error(...); raise
Reraised(requests, exc) == Outcome(requests, exc, Failed(exc))
\* after the one request of a handler: the value it returns when the body
\* was fetched and decoded
Fetched(url, response, value) ==
    IF response.ok THEN Outcome(<<url>>, NoExc, Returned(value))
    ELSE Reraised(<<url>>, response.exc)

\* mlb server.py 109-125
mlb_get_daily_schedule(date_str, upstream, now_year) ==
    LET date_components == parse_date(format_date(date_str, now_year))
        c == date_components.value
        url == <<"/en/games/", c.year, "/", c.month, "/", c.day, "/schedule.json">>
        response == Fetch(upstream, url)
    IN  IF ~date_components.ok THEN Reraised(<<>>, date_components.exc)
        ELSE Fetched(url, response, response.value)

\* nba server.py 115-122
NbaLeague ==
    [alias |-> "NBA", name |-> "NBA", id |-> "4353138d-4c22-4396-95d8-5f587d2df25c"]
ForcedNba(data) ==
    IF "league" \in DOMAIN data /\ "alias" \in DOMAIN data.league
       /\ data.league.alias # "NBA"
    THEN [data EXCEPT !.league = NbaLeague @@ data.league]
    ELSE data

\* nba server.py 100-127
nba_get_daily_schedule(date_str, upstream, now_year) ==
    LET date_components == parse_date(format_date(date_str, now_year))
        c == date_components.value
        url == <<"/en/games/", c.year, "/", c.month, "/", c.day, "/schedule.json">>
        response == Fetch(upstream, url)
    IN  IF ~date_components.ok THEN Reraised(<<>>, date_components.exc)
        ELSE Fetched(url, response, ForcedNba(response.value))

\* mlb_data.py 35-74 and nba_data.py 35-77: the summary keeps the keys it
\* copies
format_game_summary(game_data) ==
    IF game_data = <<>> THEN <<>>
    ELSE [game_id |-> IF "id" \in DOMAIN game_data THEN game_data.id ELSE "",
          status |-> IF "status" \in DOMAIN game_data THEN game_data.status ELSE ""]

\* mlb server.py 128-139, nba server.py 130-141
get_game_summary(game_id, upstream) ==
    LET url == <<"/en/games/", game_id, "/summary.json">>
        response == Fetch(upstream, url)
    IN  Fetched(url, response, format_game_summary(response.value))

\* datetime.now().year for a year left out
YearOrNow(year, now_year) == IF year = NoneV THEN ToString(now_year) ELSE PyStr(year)

\* mlb_data.py 77-129 and nba_data.py 80-132: the groups (leagues,
\* conferences) of the standings, each by its alias or name
format_standings(standings_data, groups_key) ==
    IF standings_data = <<>> \/ "standings" \notin DOMAIN standings_data
    THEN standings_data
    ELSE [season |-> IF "season" \in DOMAIN standings_data
                     THEN standings_data.season ELSE <<>>]
         @@ (groups_key :> IF groups_key \in DOMAIN standings_data.standings
                           THEN standings_data.standings[groups_key] ELSE <<>>)

MlbLeagues == {"AL", "NL"}
NbaConferences == {"EAST", "WEST", "EASTERN", "WESTERN"}

FilterGroups(formatted_data, groups_key, kept) ==
    IF groups_key \in DOMAIN formatted_data /\ kept # <<>>
    THEN [formatted_data EXCEPT ![groups_key] = kept] ELSE formatted_data
GroupsOf(formatted_data, groups_key) ==
    IF groups_key \in DOMAIN formatted_data THEN formatted_data[groups_key] ELSE <<>>

\* mlb server.py 155-184
mlb_get_standings(year, league, upstream, now_year) ==
    LET url == <<"/en/seasons/", YearOrNow(year, now_year), "/standings.json">>
        response == Fetch(upstream, url)
        formatted_data == format_standings(response.value, "leagues")
        filtered_leagues ==
            SelectSeq(GroupsOf(formatted_data, "leagues"),
                      LAMBDA league_data : upper(league_data) = upper(PyStr(league)))
    IN  Fetched(url, response,
                IF league # NoneV /\ PyStr(league) # "" /\ upper(PyStr(league)) \in MlbLeagues
                THEN FilterGroups(formatted_data, "leagues", filtered_leagues)
                ELSE formatted_data)

\* "EAST" in conf_name, "WEST" in conf_name
NameHas(conf_name, side) == conf_name = side \o "ERN CONFERENCE"

\* nba server.py 157-188
nba_get_standings(year, conference, upstream, now_year) ==
    LET url == <<"/en/seasons/", YearOrNow(year, now_year), "/standings.json">>
        response == Fetch(upstream, url)
        formatted_data == format_standings(response.value, "conferences")
        asked == upper(PyStr(conference))
        filtered_conferences ==
            SelectSeq(GroupsOf(formatted_data, "conferences"),
                      LAMBDA conf_data :
                          \/ asked \in {"EAST", "EASTERN"} /\ NameHas(upper(conf_data), "EAST")
                          \/ asked \in {"WEST", "WESTERN"} /\ NameHas(upper(conf_data), "WEST"))
    IN  Fetched(url, response,
                IF conference # NoneV /\ PyStr(conference) # "" /\ asked \in NbaConferences
                THEN FilterGroups(formatted_data, "conferences", filtered_conferences)
                ELSE formatted_data)

MlbCategories == {"hitting", "pitching"}
NbaCategories ==
    {"points", "rebounds", "assists", "steals", "blocks", "efficiency",
     "three_points_made", "field_goals_pct", "free_throws_pct"}

\* the entries of data[entries_key] whose key contains the category; a key
\* is its pieces
Filtered(data, entries_key, category) ==
    LET entries == data[entries_key]
        kept == {key \in DOMAIN entries : Mentions(key, lower(PyStr(category)))}
    IN  [key \in kept |-> entries[key]]

\* mlb server.py 228-238 and nba server.py 232-244
LeadersOf(data, category, valid_categories, entries_key) ==
    IF /\ category # NoneV /\ PyStr(category) # ""
       /\ lower(PyStr(category)) \in valid_categories
       /\ entries_key \in DOMAIN data
       /\ DOMAIN Filtered(data, entries_key, category) # {}
    THEN (entries_key :> Filtered(data, entries_key, category))
         @@ [category |-> PyStr(category)]
    ELSE data

\* mlb server.py 214-241
mlb_get_league_leaders(year, category, upstream, now_year) ==
    LET url == <<"/en/seasons/", YearOrNow(year, now_year), "/leaders.json">>
        response == Fetch(upstream, url)
    IN  Fetched(url, response,
                LeadersOf(response.value, category, MlbCategories, "leaders"))

\* nba server.py 218-247
nba_get_league_leaders(year, category, upstream, now_year) ==
    LET url == <<"/en/seasons/", YearOrNow(year, now_year), "/leaders.json">>
        response == Fetch(upstream, url)
    IN  Fetched(url, response,
                LeadersOf(response.value, category, NbaCategories, "categories"))

\* mlb server.py 297-314: season_type goes into the url as it is
mlb_get_seasonal_statistics(team_id, year, season_type, upstream, now_year) ==
    LET url == <<"/en/seasons/", YearOrNow(year, now_year), "/", PyStr(season_type),
                 "/teams/", team_id, "/statistics.json">>
        response == Fetch(upstream, url)
    IN  Fetched(url, response, response.value)

NbaSeasonTypes == {"REG", "PST", "PRE"}
\* nba server.py 300-303
SeasonTypeUsed(season_type) ==
    LET folded == IF season_type # NoneV /\ PyStr(season_type) # ""
                  THEN upper(PyStr(season_type)) ELSE "REG"
    IN  IF folded \notin NbaSeasonTypes THEN "REG" ELSE folded

\* nba server.py 290-310
nba_get_seasonal_statistics(team_id, year, season_type, upstream, now_year) ==
    LET url == <<"/en/seasons/", YearOrNow(year, now_year), "/",
                 SeasonTypeUsed(season_type), "/teams/", team_id, "/statistics.json">>
        response == Fetch(upstream, url)
    IN  Fetched(url, response, response.value)

\* the handler of a tool of a server
Handler(server, tool, args, upstream, now_year) ==
    CASE tool = "get_daily_schedule" ->
            IF server = "mlb" THEN mlb_get_daily_schedule(args.date_str, upstream, now_year)
            ELSE nba_get_daily_schedule(args.date_str, upstream, now_year)
      [] tool = "get_game_summary" -> get_game_summary(args.game_id, upstream)
      [] tool = "get_standings" ->
            IF server = "mlb"
            THEN mlb_get_standings(args.year, args.league, upstream, now_year)
            ELSE nba_get_standings(args.year, args.conference, upstream, now_year)
      [] tool = "get_league_leaders" ->
            IF server = "mlb"
            THEN mlb_get_league_leaders(args.year, args.category, upstream, now_year)
            ELSE nba_get_league_leaders(args.year, args.category, upstream, now_year)
      [] tool = "get_seasonal_statistics" ->
            IF server = "mlb"
            THEN mlb_get_seasonal_statistics(args.team_id, args.year, args.season_type,
                                             upstream, now_year)
            ELSE nba_get_seasonal_statistics(args.team_id, args.year, args.season_type,
                                             upstream, now_year)

\* the calls and the upstream answers the model draws
Servers == {"mlb", "nba"}
SeasonYears == {NoneV, IntV(2024)}
Dates ==
    {NoneV, StrV(<<"2024", "-", "03", "-", "15">>), StrV(<<"20240315">>),
     StrV(<<"2024", "-", "03">>)}
GroupKey(server) == IF server = "mlb" THEN "league" ELSE "conference"
GroupsAsked(server) ==
    IF server = "mlb" THEN {NoneV, StrV(<<"AL">>), StrV(<<"al">>), StrV(<<"XL">>)}
    ELSE {NoneV, StrV(<<"East">>), StrV(<<"WESTERN">>), StrV(<<"North">>)}
CategoriesAsked(server) ==
    IF server = "mlb"
    THEN {NoneV, StrV(<<"hitting">>), StrV(<<"Hitting">>), StrV(<<"rushing">>)}
    ELSE {NoneV, StrV(<<"points">>), StrV(<<"POINTS">>), StrV(<<"rushing">>)}
SeasonTypesAsked == {NoneV, StrV(<<"REG">>), StrV(<<"pst">>), StrV(<<"XYZ">>)}

ArgsOf(server, tool) ==
    CASE tool = "get_daily_schedule" -> {[date_str |-> d] : d \in Dates}
      [] tool = "get_game_summary" -> {[game_id |-> "g1"]}
      [] tool = "get_standings" ->
            {[year |-> y] @@ (GroupKey(server) :> g) :
                y \in SeasonYears, g \in GroupsAsked(server)}
      [] tool = "get_league_leaders" ->
            {[year |-> y, category |-> c] : y \in SeasonYears, c \in CategoriesAsked(server)}
      [] tool = "get_seasonal_statistics" ->
            {[team_id |-> "t1", year |-> IntV(2024), season_type |-> t] :
                t \in SeasonTypesAsked}

League(alias) == [alias |-> alias, name |-> alias, id |-> alias \o "-id"]
Payloads(server, tool) ==
    CASE tool = "get_daily_schedule" ->
            {[league |-> League(a), games |-> "games"] : a \in {"NBA", "MLB"}}
            \cup {[games |-> "games"]}
      [] tool = "get_game_summary" -> {[id |-> "g1", status |-> "closed"], <<>>}
      [] tool = "get_standings" ->
            {[season |-> "2024",
              standings |-> IF server = "mlb" THEN [leagues |-> <<"AL", "NL">>]
                            ELSE [conferences |-> <<"Eastern Conference",
                                                    "Western Conference">>]],
             [message |-> "no standings"]}
      [] tool = "get_league_leaders" ->
            {IF server = "mlb"
             THEN [leaders |-> (<<"hitting">> :> "h" @@ <<"pitching">> :> "p")]
             ELSE [categories |-> (<<"points">> :> "p" @@ <<"rebounds">> :> "r"
                                   @@ <<"three_", "points", "_made">> :> "t")]}
      [] tool = "get_seasonal_statistics" -> {[statistics |-> "team statistics"]}
Upstreams(server, tool) ==
    {HttpOk(d) : d \in Payloads(server, tool)}
    \cup {HttpStatus(404), HttpStatus(500), NetworkFailure, MalformedBody}

SportradarTools ==
    {"get_daily_schedule", "get_game_summary", "get_standings", "get_league_leaders",
     "get_seasonal_statistics"}

InitSportradar ==
    /\ Started({DefaultLevel}, {DefaultLevel})
    /\ serial = NothingSerialized
    /\ sr = NoToolCall

\* one call of a tool handler, from its first line to its return or to the
\* exception that leaves it
CallTool(server) ==
    /\ sr = NoToolCall
    /\ \E tool \in SportradarTools : \E args \in ArgsOf(server, tool) :
       \E upstream \in Upstreams(server, tool) :
          LET done == Handler(server, tool, args, upstream, current_year)
          IN  sr' = [called |-> TRUE, server |-> server, tool |-> tool, args |-> args,
                     upstream |-> upstream, requests |-> done.requests,
                     raised |-> done.raised, out |-> done.out]
    /\ UNCHANGED <<Gateway, serial>>

CallMlb == CallTool("mlb")
CallNba == CallTool("nba")

\* the caller has the result
Reply ==
    /\ sr # NoToolCall
    /\ sr' = NoToolCall
    /\ UNCHANGED <<Gateway, serial>>

NextSportradar == CallMlb \/ CallNba \/ Reply

SpecSportradar == InitSportradar /\ [][NextSportradar]_vars

(***************************************************************************)
(* Invocations in flight together.  A server is one process with one event *)
(* loop; every invocation is a task on it, and a task that runs keeps the  *)
(* loop until it awaits something that is not ready, or returns.  f1_tool  *)
(* awaits nothing: check_rate_limit and the adapters are plain calls.  A   *)
(* handler of the MLB and NBA servers awaits client.get.                   *)
(***************************************************************************)
Tasks == 1..MaxTasks

\* the window of the F1 server after a quiet minute: an admission at 0 and
\* all but two of the budget at 1
WindowAtStart == <<0>> \o [i \in 1..(MAX_REQUESTS_PER_MINUTE - 2) |-> 1]

ConcurrentCalls(server) ==
    IF server = "f1" THEN RateInvocations
    ELSE {[name |-> "get_daily_schedule", arguments |-> a] :
            a \in {[date_str |-> NoneV], [date_str |-> StrV(<<"20240315">>)]}}

Pending(call) == [pc |-> "pending", call |-> call, current_time |-> 0, admitted |-> FALSE]

InitConcurrent ==
    /\ clock = WINDOW_SECONDS
    /\ current_year = ThisYear
    /\ environ = DefaultLevel
    /\ LOG_LEVEL = environ
    /\ log_level = DefaultLevel
    /\ request_timestamps = WindowAtStart
    /\ inv = NoInvocation
    /\ earlier = NothingEarlier
    /\ nChecks = 0
    /\ firstCheckAt = 0
    /\ lastCheckAt = 0
    /\ prevCheckAt = 0
    /\ admissions = [at |-> <<>>, only_failures |-> TRUE]
    /\ serial = NothingSerialized
    /\ sr = NoToolCall
    /\ \E server \in {"f1"} \cup Servers :
       \E calls \in [Tasks -> ConcurrentCalls(server)] :
          loop = [server |-> server, running |-> 0,
                  tasks |-> [t \in Tasks |-> Pending(calls[t])]]

\* the places where a handler gives the loop away: the await of client.get
\* (mlb server.py 120, nba server.py 111)
Awaits_InRateLimit(server, position) ==
    position \in {"pruned", "counted"} \/ (server # "f1" /\ position = "adapter")
Awaits(server, position) == server # "f1" /\ position = "adapter"

\* the loop is free, or the task has it
Holds(t) == loop.running \in {0, t}

\* the task has gone on to its next position
Moved(t, task) ==
    loop' = [loop EXCEPT !.tasks[t] = task,
                         !.running = IF task.pc = "done" \/ Awaits(loop.server, task.pc)
                                     THEN 0 ELSE t]

Quiet ==
    <<clock, current_year, LOG_LEVEL, inv, History, earlier, environ, log_level,
      serial, sr>>

\* server.py 59-62
Prune(t) ==
    /\ loop.server = "f1" /\ Holds(t)
    /\ loop.tasks[t].pc = "pending"
    /\ request_timestamps' = Pruned(request_timestamps, clock)
    /\ Moved(t, [loop.tasks[t] EXCEPT !.pc = "pruned", !.current_time = clock])
    /\ UNCHANGED Quiet

\* server.py 65-66, and 131-143 when the check denies
Count(t) ==
    /\ loop.server = "f1" /\ Holds(t)
    /\ loop.tasks[t].pc = "pruned"
    /\ Moved(t, [loop.tasks[t] EXCEPT
                    !.pc = IF OverLimit(request_timestamps) THEN "done" ELSE "counted"])
    /\ UNCHANGED <<request_timestamps, Quiet>>

\* server.py 69-70
AppendTimestamp(t) ==
    /\ loop.server = "f1" /\ Holds(t)
    /\ loop.tasks[t].pc = "counted"
    /\ request_timestamps' = Append(request_timestamps, loop.tasks[t].current_time)
    /\ Moved(t, [loop.tasks[t] EXCEPT !.pc = "admitted", !.admitted = TRUE])
    /\ UNCHANGED Quiet

\* server.py 145-254: up to the adapter's call, or to the envelope of the
\* exception raised before it
Validate(t) ==
    /\ loop.server = "f1" /\ Holds(t)
    /\ loop.tasks[t].pc = "admitted"
    /\ LET call == loop.tasks[t].call
           body == TryBody(call.name, call.arguments, BackendOk, current_year)
       IN  Moved(t, [loop.tasks[t] EXCEPT
                        !.pc = IF body.adapter_calls # <<>> THEN "adapter" ELSE "done"])
    /\ UNCHANGED <<request_timestamps, Quiet>>

\* the adapter returns, server.py 257
Return(t) ==
    /\ loop.server = "f1" /\ Holds(t)
    /\ loop.tasks[t].pc = "adapter"
    /\ Moved(t, [loop.tasks[t] EXCEPT !.pc = "done"])
    /\ UNCHANGED <<request_timestamps, Quiet>>

\* a handler of the MLB or NBA server up to await client.get, or to the
\* exception raised before it
Request(t) ==
    /\ loop.server \in Servers /\ Holds(t)
    /\ loop.tasks[t].pc = "pending"
    /\ LET call == loop.tasks[t].call
           done == Handler(loop.server, call.name, call.arguments, NetworkFailure,
                           current_year)
       IN  Moved(t, [loop.tasks[t] EXCEPT
                        !.pc = IF done.requests # <<>> THEN "adapter" ELSE "done"])
    /\ UNCHANGED <<request_timestamps, Quiet>>

\* the response is there and the handler runs on to its return
Resume(t) ==
    /\ loop.server \in Servers /\ Holds(t)
    /\ loop.tasks[t].pc = "adapter"
    /\ Moved(t, [loop.tasks[t] EXCEPT !.pc = "done"])
    /\ UNCHANGED <<request_timestamps, Quiet>>

NextConcurrent ==
    \E t \in Tasks :
        \/ Prune(t) \/ Count(t) \/ AppendTimestamp(t) \/ Validate(t) \/ Return(t)
        \/ Request(t) \/ Resume(t)

SpecConcurrent == InitConcurrent /\ [][NextConcurrent]_vars

(***************************************************************************)
(* The claims.                                                             *)
(***************************************************************************)
Handling == inv # NoInvocation
Envelope == inv.response[1]
WellFormed(envelope) ==
    \/ DOMAIN envelope = {"status", "data"} /\ envelope.status = "success"
    \/ DOMAIN envelope = {"status", "message"} /\ envelope.status = "error"
       /\ Len(envelope.message) > 0
OneErrorEnvelope ==
    Len(inv.response) = 1 /\ WellFormed(Envelope) /\ Envelope.status = "error"

\* C1: from the empty window, of the admission checks made within one second
\* of the first exactly the first MAX_REQUESTS_PER_MINUTE are admitted and
\* every later one (the 61st) is denied; a check made 61 seconds or more
\* after the previous check is admitted.
C1_BurstThenRecovery ==
    Handling =>
        /\ inv.at - firstCheckAt < 1 =>
              (inv.admitted <=> nChecks <= MAX_REQUESTS_PER_MINUTE)
        /\ (nChecks >= 2 /\ inv.at - prevCheckAt >= WINDOW_SECONDS + 1) => inv.admitted

\* the check after a burst of 61 (60 admitted, one denied), 61 seconds later
C1_Witness ==
    /\ Handling
    /\ nChecks = MAX_REQUESTS_PER_MINUTE + 2
    /\ prevCheckAt - firstCheckAt < 1
    /\ inv.at - prevCheckAt >= WINDOW_SECONDS + 1
    /\ inv.admitted
    /\ request_timestamps = <<inv.at>>

\* C2: a denied invocation returns one error envelope and reaches neither
\* validation nor dispatch nor an adapter nor the backend.
C2_DenialStopsEverything ==
    (Handling /\ ~inv.admitted) =>
        /\ OneErrorEnvelope
        /\ inv.stages = {}
        /\ inv.adapter_calls = <<>>
        /\ ~inv.queried

C2_Witness ==
    /\ Handling /\ ~inv.admitted
    /\ inv.name = "get_telemetry"
    /\ DOMAIN inv.arguments =
          {"year", "event_identifier", "session_name", "driver_identifier", "lap_number"}

\* C3: every invocation returns exactly one envelope, and it is either
\* success with data or error with a message.
C3_OneWholeEnvelope ==
    Handling => Len(inv.response) = 1 /\ WellFormed(Envelope)

\* the adapter's dict could not be serialized
C3_Witness ==
    /\ Handling
    /\ inv.backend = BackendOdd
    /\ "serialize" \in inv.stages
    /\ OneErrorEnvelope

\* C4: no exception leaves f1_tool; whatever is raised after admission, and
\* every backend failure, ends in an error envelope.
C4_NothingEscapes ==
    Handling =>
        /\ inv.escaped = NoExc
        /\ (inv.raised # NoExc \/ inv.backend.kind = "error") => OneErrorEnvelope

C4_Witness ==
    /\ Handling
    /\ inv.raised.type = "KeyError"
    /\ inv.escaped = NoExc
    /\ OneErrorEnvelope

\* the invocation is valid but for the keys named: every other key it
\* carries is a key of the tool with a valid value, and every required key
\* not named is there
ValidBut(keys) ==
    /\ inv.name \in ListedNames
    /\ \A k \in DOMAIN inv.arguments \ keys :
          k \in DOMAIN FullArgs(inv.name) /\ inv.arguments[k] = FullArgs(inv.name)[k]
    /\ Required(inv.name) \ keys \subseteq DOMAIN inv.arguments
\* the message is the text, or the text behind the handler's "Error: "
Verbatim(message, text) == message = text \/ message = <<"Error: ">> \o text
Rejected == OneErrorEnvelope /\ ~inv.queried
YearIs(n) == "year" \in DOMAIN inv.arguments /\ inv.arguments["year"] = IntV(n)

\* C5: with LOG_LEVEL other than DEBUG, the envelope returned for a backend
\* failure carries the fixed generic message, whatever the failure was.
C5_BackendFailureIsGeneric ==
    (Handling /\ inv.admitted /\ LOG_LEVEL # "DEBUG" /\ inv.backend.kind = "error") =>
        OneErrorEnvelope /\ Envelope.message = GenericMessage

\* C6: a validation failure (a malformed, missing or out-of-range argument)
\* is reported with its own text in the envelope, whatever LOG_LEVEL is.
C6_ValidationVerbatim ==
    (Handling /\ inv.raised.type \in {"ValueError", "KeyError"}) =>
        OneErrorEnvelope /\ Verbatim(Envelope.message, inv.raised.msg)

\* C7: an unregistered tool name, with no argument or a valid year, gets an
\* error envelope that names the tool as unknown, no adapter is called, and
\* the invocation records the one timestamp of its admission check.
C7_UnknownToolNamed ==
    (/\ Handling /\ inv.admitted
     /\ inv.name = "get_nonexistent"
     /\ inv.arguments \in {<<>>, "year" :> BaseYear}) =>
        /\ OneErrorEnvelope
        /\ Mentions(Envelope.message, "Unknown tool: ")
        /\ Mentions(Envelope.message, inv.name)
        /\ inv.adapter_calls = <<>>
        /\ inv.recorded = 1

SessionTools ==
    {"get_session_results", "get_driver_info", "analyze_driver_performance",
     "compare_drivers", "get_telemetry"}

\* C8: for every tool that takes a session_name, session_name "Practice" in
\* an otherwise valid invocation gets an error envelope naming the allowed
\* set, and no adapter is called.
C8_PracticeRejected ==
    (/\ Handling /\ inv.admitted
     /\ inv.name \in SessionTools
     /\ ValidBut({"session_name"})
     /\ "session_name" \in DOMAIN inv.arguments
     /\ Arg(inv.arguments, "session_name") = "Practice") =>
        /\ OneErrorEnvelope
        /\ Mentions(Envelope.message, ValidSessionsText)
        /\ inv.adapter_calls = <<>>

\* C9: in an otherwise valid invocation of any tool, year 1949 and year
\* current_year + 2 are rejected (an error envelope, the backend not
\* queried), year 1950 and year current_year + 1 are accepted (the backend
\* is queried).
C9_YearBoundary ==
    (Handling /\ inv.admitted /\ ValidBut({"year"})) =>
        /\ (YearIs(MIN_YEAR - 1) \/ YearIs(current_year + 2)) => Rejected
        /\ (YearIs(MIN_YEAR) \/ YearIs(current_year + 1)) => inv.queried

\* C10: an invocation of a listed tool that lacks a parameter the listing
\* declares required, and is valid otherwise, gets an error envelope that
\* names a missing field, and no adapter is called.
C10_MissingFieldNamed ==
    (/\ Handling /\ inv.admitted
     /\ inv.name \in ListedNames
     /\ ValidBut(Required(inv.name) \ DOMAIN inv.arguments)
     /\ Required(inv.name) \ DOMAIN inv.arguments # {}) =>
        /\ OneErrorEnvelope
        /\ \E k \in Required(inv.name) \ DOMAIN inv.arguments :
              Mentions(Envelope.message, k)
        /\ inv.adapter_calls = <<>>

\* C11: the catalog and the dispatcher agree one to one: no name is listed
\* twice, every listed name makes the condition of exactly one branch of the
\* if-chain true, every branch's name is listed, and an invocation that
\* reaches the dispatch is refused as an unknown tool exactly when its name
\* is not listed.
C11_CatalogMatchesDispatch ==
    /\ \A i, j \in 1..Len(list_tools) :
          list_tools[i].name = list_tools[j].name => i = j
    /\ \A n \in ListedNames : Cardinality(BranchesOf(n)) = 1
    /\ \A b \in 1..Len(DispatchBranches) : DispatchBranches[b] \in ListedNames
    /\ (Handling /\ "dispatch" \in inv.stages) =>
          (inv.name \in ListedNames <=> ~Mentions(inv.raised.msg, "Unknown tool: "))

\* the last tool of the catalog reaches the adapter of the last branch
C11_Witness ==
    /\ Handling
    /\ inv.name = list_tools[Len(list_tools)].name
    /\ inv.adapter_calls = <<DispatchBranches[Len(DispatchBranches)]>>

Serialized == serial.given /\ serial.by = "json_serial"
IsNaN(value) == value.kind = "float" /\ value.float = "nan"

\* C12: json_serial returns null for every missing sentinel (None, pd.NA,
\* NaT, a NaN that is a native float or a numpy float), and never returns
\* NaN.
C12_MissingBecomesNull ==
    Serialized =>
        /\ IsMissing(serial.obj) => serial.out = Returned(NoneV)
        /\ serial.out.ok => ~IsNaN(serial.out.value)

JsonScalar(value) == value.kind \in {"none", "int", "float", "str"}

\* C13: json_serial returns a value for every input and never raises, and
\* a list, a dict or another object comes back as its string rendering.
C13_Total ==
    Serialized =>
        /\ serial.out.ok
        /\ JsonScalar(serial.out.value)
        /\ serial.obj.kind \in {"list", "dict", "object"} =>
              serial.out.value = StrV(<<Str(serial.obj)>>)

\* C20: json_serial turns a dict into a dict with the same keys in the same
\* order, each value what json_serial makes of it, and a list into a list of
\* the same length, each element what json_serial makes of it.
C20_Recursive ==
    Serialized =>
        /\ serial.obj.kind = "dict" =>
              /\ serial.out.ok /\ serial.out.value.kind = "dict"
              /\ Len(serial.out.value.items) = Len(serial.obj.items)
              /\ \A i \in 1..Len(serial.obj.items) :
                    /\ serial.out.value.items[i][1] = serial.obj.items[i][1]
                    /\ Returned(serial.out.value.items[i][2])
                          \in json_serial(serial.obj.items[i][2])
        /\ serial.obj.kind = "list" =>
              /\ serial.out.ok /\ serial.out.value.kind = "list"
              /\ Len(serial.out.value.elems) = Len(serial.obj.elems)
              /\ \A i \in 1..Len(serial.obj.elems) :
                    Returned(serial.out.value.elems[i]) \in json_serial(serial.obj.elems[i])

LapTools == {"analyze_driver_performance", "get_telemetry", "compare_drivers"}
DriverKey(name) == IF name = "compare_drivers" THEN "drivers" ELSE "driver_identifier"

\* C14: when the backend has no laps for the driver asked for, each of the
\* tools that look laps up by driver returns an error envelope whose message
\* is not the generic one and names the driver.
C14_EmptyNamesDriver ==
    (Handling /\ inv.admitted /\ inv.name \in LapTools /\ inv.backend = BackendEmpty) =>
        /\ OneErrorEnvelope
        /\ Envelope.message # GenericMessage
        /\ Mentions(Envelope.message, Arg(inv.arguments, DriverKey(inv.name)))

IsErrorEnvelope(value) == DOMAIN value = {"status", "message"} /\ value.status = "error"
\* the call ended in an error outcome: an exception left the handler, or it
\* returned an error envelope
CallFailed == ~sr.out.ok \/ IsErrorEnvelope(sr.out.value)
FailureText ==
    IF ~sr.out.ok THEN sr.out.exc.msg
    ELSE IF IsErrorEnvelope(sr.out.value) THEN sr.out.value.message
    ELSE <<>>

\* C15: in the MLB and NBA servers, when the fetch fails (an HTTP error
\* status, a network failure, an undecodable body) or the date is malformed,
\* the handler returns an error envelope and no exception leaves it.
C15_FailureEnveloped ==
    (sr.called /\ sr.raised # NoExc) =>
        sr.out.ok /\ IsErrorEnvelope(sr.out.value)

EnumTools == {"get_league_leaders", "get_seasonal_statistics", "get_standings"}
EnumKey(server, tool) ==
    CASE tool = "get_league_leaders" -> "category"
      [] tool = "get_seasonal_statistics" -> "season_type"
      [] tool = "get_standings" -> GroupKey(server)
AllowedSet(server, tool) ==
    CASE tool = "get_league_leaders" ->
            IF server = "mlb" THEN MlbCategories ELSE NbaCategories
      [] tool = "get_seasonal_statistics" -> NbaSeasonTypes
      [] tool = "get_standings" -> IF server = "mlb" THEN MlbLeagues ELSE NbaConferences
Folded(tool, text) == IF tool = "get_league_leaders" THEN lower(text) ELSE upper(text)
OutsideAllowedSet ==
    /\ sr.called
    /\ sr.tool \in EnumTools
    /\ ~(sr.server = "mlb" /\ sr.tool = "get_seasonal_statistics")
    /\ sr.args[EnumKey(sr.server, sr.tool)] # NoneV
    /\ Folded(sr.tool, PyStr(sr.args[EnumKey(sr.server, sr.tool)]))
          \notin AllowedSet(sr.server, sr.tool)

\* C16: a category of get_league_leaders (MLB, NBA), a season_type of
\* get_seasonal_statistics (NBA) or a league / conference of get_standings
\* that is outside its allowed set makes the call fail with a message that
\* names the allowed set.
C16_EnumRejected ==
    OutsideAllowedSet =>
        /\ CallFailed
        /\ \A a \in AllowedSet(sr.server, sr.tool) : Mentions(FailureText, a)

\* C17: when the body the NBA get_daily_schedule fetched carries a league
\* alias other than "NBA", the call ends in an error outcome, and what it
\* returns is never that body with its league rewritten.
C17_MismatchSurfaced ==
    (/\ sr.called /\ sr.server = "nba" /\ sr.tool = "get_daily_schedule"
     /\ sr.requests # <<>> /\ sr.upstream.kind = "ok"
     /\ "league" \in DOMAIN sr.upstream.data
     /\ sr.upstream.data.league.alias # "NBA") =>
        /\ CallFailed
        /\ ~(sr.out.ok /\ sr.out.value # sr.upstream.data)

\* the invocation in hand has the tool name and the raw arguments of the one
\* remembered
SameAsEarlier ==
    /\ Handling /\ inv.admitted
    /\ earlier.handled
    /\ earlier.name = inv.name
    /\ earlier.arguments = inv.arguments

\* C18 as stated: validating the same tool name and raw arguments at any two
\* points of the process lifetime gives the same sanitized result or the
\* same failure, whatever the backend, the clock and the calls in between.
C18_SameVerdictAlways ==
    SameAsEarlier => Verdict = earlier.verdict

\* C18: validating the same tool name and raw arguments at any two points of
\* the process lifetime that lie in the same calendar year gives the same
\* sanitized result or the same failure, whatever the backend, the clock and
\* the calls in between.
C18_SameVerdictWithinYear ==
    (SameAsEarlier /\ earlier.year = current_year) => Verdict = earlier.verdict

\* the same schedule request a minute later, in the same year, the backend
\* up once and down once
C18_Witness ==
    /\ SameAsEarlier
    /\ inv.name = "get_event_schedule"
    /\ earlier.year = current_year
    /\ earlier.at # inv.at
    /\ earlier.backend # inv.backend
    /\ inv.queried
    /\ Verdict = earlier.verdict

\* the envelope tells what failed: the text of the exception, or a message
\* of the adapter's own
Detailed ==
    /\ Envelope.message # GenericMessage
    /\ inv.raised # NoExc => Verbatim(Envelope.message, inv.raised.msg)

\* C19: a server started with verbosity DEBUG, by the --log-level option or
\* by F1_MCP_SERVER_LOG_LEVEL, returns error envelopes that carry the
\* description of the failure; started with any other verbosity it returns
\* the generic message; what the environment variable becomes after the
\* start changes nothing.
C19_VerbosityAtStart ==
    (Handling /\ inv.admitted /\ OneErrorEnvelope) =>
        IF LOG_LEVEL = "DEBUG" \/ log_level = "DEBUG"
        THEN Detailed
        ELSE Envelope.message = GenericMessage

\* C21: an invocation of an unregistered tool name fails with the
\* unknown-tool error whatever its arguments are: with a year out of range
\* or not a number the exception raised is still "Unknown tool", not the
\* year's.
C21_UnknownToolFirst ==
    (Handling /\ inv.admitted /\ inv.name \notin ListedNames) =>
        /\ inv.raised = ValueError(<<"Unknown tool: ", inv.name>>)
        /\ OneErrorEnvelope

\* no timestamp of the window is WINDOW_SECONDS old or older at the time
Fresh(now) ==
    \A i \in 1..Len(request_timestamps) : now - request_timestamps[i] < WINDOW_SECONDS

\* C22 as stated: in every reachable state every timestamp retained in
\* request_timestamps is less than 60 seconds older than the current clock
\* value.
C22_FreshAlways == Fresh(clock)

\* C22: every timestamp retained in request_timestamps is less than 60
\* seconds older than the latest admission check (the window is pruned only
\* by a check), so now - timestamp < 60 holds right after every check, until
\* the clock moves on; before the first check the window is empty.
C22_FreshAtLatestCheck ==
    /\ nChecks = 0 => request_timestamps = <<>>
    /\ nChecks > 0 => Fresh(lastCheckAt)
    /\ (Handling /\ inv.at = clock) => Fresh(clock)

\* a check 60 seconds after the first has pruned the first one's timestamp
C22_Witness ==
    /\ Handling /\ inv.admitted
    /\ nChecks >= 2
    /\ firstCheckAt = 0
    /\ inv.at = clock
    /\ inv.at = WINDOW_SECONDS
    /\ request_timestamps = <<inv.at>>

\* C23: after any sequence of admission checks, at whatever clock values,
\* request_timestamps never holds more than MAX_REQUESTS_PER_MINUTE
\* timestamps; so it is right after a request is admitted.
C23_WithinBudget == Len(request_timestamps) <= MAX_REQUESTS_PER_MINUTE

\* the admission that fills the window, some of it a minute's end old
C23_Witness ==
    /\ Handling /\ inv.admitted
    /\ Len(request_timestamps) = MAX_REQUESTS_PER_MINUTE
    /\ request_timestamps[1] = 0
    /\ inv.at = WINDOW_SECONDS - 1
    /\ nChecks = MAX_REQUESTS_PER_MINUTE

\* C24: an admission check that denies leaves in request_timestamps exactly
\* the timestamps that survived its pruning, in their order, and adds none
\* for the denied request.
C24_DenialRecordsNothing ==
    [][(inv = NoInvocation /\ inv' # NoInvocation /\ ~inv'.admitted) =>
            /\ request_timestamps' = Pruned(request_timestamps, clock)
            /\ inv'.recorded = 0]_vars

\* a denial within the burst: the window is as full as before and the
\* denied request's check is the 61st
C24_Witness ==
    /\ Handling /\ ~inv.admitted
    /\ nChecks = MAX_REQUESTS_PER_MINUTE + 1
    /\ Len(request_timestamps) = MAX_REQUESTS_PER_MINUTE
    /\ inv.recorded = 0
    /\ inv.at = WINDOW_SECONDS - 1
    /\ request_timestamps[1] = 0

\* C27: an invocation calls at most one adapter, at most once, and only the
\* adapter of its own tool name; when the backend fails under that adapter
\* the call is not repeated and no other adapter is tried.
C27_OneAdapterOnce ==
    Handling =>
        /\ Len(inv.adapter_calls) <= 1
        /\ \A i \in 1..Len(inv.adapter_calls) :
              inv.adapter_calls[i] = inv.name /\ Cardinality(BranchesOf(inv.name)) = 1
        /\ inv.queried => inv.adapter_calls = <<inv.name>>

\* the backend failed under get_telemetry: one call, one error envelope
C27_Witness ==
    /\ Handling /\ inv.admitted
    /\ inv.name = "get_telemetry"
    /\ inv.backend.kind = "error"
    /\ inv.queried
    /\ inv.adapter_calls = <<"get_telemetry">>
    /\ OneErrorEnvelope

\* C28: whatever was invoked in between, failing invocations included, an
\* invocation is answered, and it is answered as the same tool name, the
\* same arguments and the same backend response were answered before; what
\* the window does to it is to admit or to deny it.
C28_FailuresLeaveNoTrace ==
    /\ SameAsEarlier /\ earlier.backend = inv.backend =>
          inv.response = earlier.response
    /\ (Handling /\ earlier.handled /\ earlier.failed_since) =>
          Len(inv.response) = 1 /\ inv.escaped = NoExc

\* a schedule request answered, then a failing invocation, then the same
\* request a minute later with the same answer
C28_Witness ==
    /\ SameAsEarlier
    /\ earlier.failed_since
    /\ earlier.backend = inv.backend
    /\ inv.backend = BackendOk
    /\ inv.at > earlier.at
    /\ Envelope.status = "success"
    /\ inv.response = earlier.response

\* the admissions, the invocation in hand's own included, that are less
\* than WINDOW_SECONDS old when it is checked
Recent ==
    {j \in 1..Len(admissions.at) : inv.at - admissions.at[j] < WINDOW_SECONDS}

\* C29: with a clock that never goes back, every half-open interval of
\* WINDOW_SECONDS seconds holds at most MAX_REQUESTS_PER_MINUTE admitted
\* timestamps, after any sequence of checks (the admitted timestamps come in
\* order, so that is: the admission MAX_REQUESTS_PER_MINUTE places after any
\* admission is WINDOW_SECONDS or more later); and a check is denied only
\* against MAX_REQUESTS_PER_MINUTE admissions less than WINDOW_SECONDS old,
\* an admission exactly that old not being among them.
C29_SlidingWindowBound ==
    /\ \A i \in 1..(Len(admissions.at) - 1) : admissions.at[i] <= admissions.at[i + 1]
    /\ \A i \in 1..(Len(admissions.at) - MAX_REQUESTS_PER_MINUTE) :
          admissions.at[i + MAX_REQUESTS_PER_MINUTE] >= admissions.at[i] + WINDOW_SECONDS
    /\ (Handling /\ ~inv.admitted) => Cardinality(Recent) >= MAX_REQUESTS_PER_MINUTE

\* a full window at 0 and, its timestamps exactly 60 seconds old, a second
\* admission at 60
C29_Witness ==
    /\ Handling /\ inv.admitted
    /\ inv.at = WINDOW_SECONDS
    /\ Len(admissions.at) >= MAX_REQUESTS_PER_MINUTE + 1
    /\ admissions.at[MAX_REQUESTS_PER_MINUTE] = 0
    /\ request_timestamps[1] = WINDOW_SECONDS

\* C30: an admitted invocation has added one timestamp, its own, to the
\* window, whether it then fails or not; no step takes a timestamp out of
\* the window but the pruning of a check; and a check is denied exactly
\* when MAX_REQUESTS_PER_MINUTE admitted invocations, failed ones counted,
\* are less than WINDOW_SECONDS old.
C30_FailuresCount ==
    /\ [](Handling =>
            /\ inv.admitted =>
                  /\ inv.recorded = 1
                  /\ request_timestamps # <<>>
                  /\ request_timestamps[Len(request_timestamps)] = inv.at
                  /\ Cardinality(Recent) <= MAX_REQUESTS_PER_MINUTE
            /\ ~inv.admitted => Cardinality(Recent) = MAX_REQUESTS_PER_MINUTE)
    /\ [][LET kept == Pruned(request_timestamps, clock)
          IN  \/ request_timestamps' = kept
              \/ request_timestamps' = Append(kept, clock)
              \/ request_timestamps' = request_timestamps]_vars

\* sixty invocations that failed, and a valid one denied after them
C30_Witness ==
    /\ Handling /\ ~inv.admitted
    /\ inv.name = "get_event_schedule"
    /\ inv.arguments = ("year" :> BaseYear)
    /\ admissions.only_failures
    /\ Len(admissions.at) = MAX_REQUESTS_PER_MINUTE
    /\ inv.at - admissions.at[1] < WINDOW_SECONDS
    /\ nChecks = MAX_REQUESTS_PER_MINUTE + 1

InAdapter(t) == loop.tasks[t].pc = "adapter"
InRateLimit(t) == loop.tasks[t].pc \in {"pruned", "counted"}
Recorded(t) == loop.tasks[t].admitted

\* C25: with F1 invocations in flight together, no invocation is between
\* its pruning and its append while another is; the window holds what the
\* pruning left of it and one timestamp for every invocation admitted, no
\* more and no fewer; and it never holds more than the budget.
C25_AdmissionChecksAtomic ==
    loop.server = "f1" =>
        /\ Cardinality({t \in Tasks : InRateLimit(t)}) <= 1
        /\ \A t \in Tasks : InRateLimit(t) => loop.running = t
        /\ \/ request_timestamps = WindowAtStart
           \/ Len(request_timestamps) =
                 Len(Pruned(WindowAtStart, clock))
                   + Cardinality({t \in Tasks : Recorded(t)})
        /\ Len(request_timestamps) <= MAX_REQUESTS_PER_MINUTE

\* three invocations at once against a window with room for two: two
\* admitted, one denied, the window full
C25_Witness ==
    /\ loop.server = "f1"
    /\ \A t \in Tasks : loop.tasks[t].pc = "done"
    /\ Cardinality({t \in Tasks : Recorded(t)}) = 2
    /\ Len(request_timestamps) = MAX_REQUESTS_PER_MINUTE
    /\ request_timestamps[1] = 1

\* C26: in each of the three servers, while the adapter call of one
\* invocation is in progress another invocation can start, and one whose
\* own adapter call is in progress can complete it.
C26_AdapterCallsOverlap ==
    loop.server # "" =>
        \A t1, t2 \in Tasks :
            (t1 # t2 /\ InAdapter(t1)) =>
                /\ loop.tasks[t2].pc = "pending" => ENABLED (Prune(t2) \/ Request(t2))
                /\ InAdapter(t2) => ENABLED (Return(t2) \/ Resume(t2))

====
